---- MODULE Spec2Model ----
(***************************************************************************)
(* Model of src/EyeTest.py: analyze_astigmatism(), the single procedure    *)
(* that lets the user pick an eye image, extracts the largest outer        *)
(* contour, fits an ellipse to it and classifies the axis ratio.           *)
(*                                                                         *)
(* The procedure is modelled statement group by statement group; pc is its *)
(* position.  Calls into tkinter, OpenCV and matplotlib are library code:  *)
(* what they return (the chosen path, whether the file decodes, the        *)
(* extracted contours, the fitted axis lengths) is chosen nondeterminis-   *)
(* tically from bounded sets.  Images are symbolic: an image is the        *)
(* sequence of operations that produced it.  Axis lengths are naturals and *)
(* the axis ratio is the exact quotient <<num, den>>.                      *)
(***************************************************************************)
EXTENDS Integers, Sequences, FiniteSets

VARIABLES pc, image_path, image, gray, blurred, edges, contours,
          largest_contour, major_axis, minor_axis, result_img, axis_ratio,
          out, shown, calls, fit_args, divisions

vars == <<pc, image_path, image, gray, blurred, edges, contours,
          largest_contour, major_axis, minor_axis, result_img, axis_ratio,
          out, shown, calls, fit_args, divisions>>

(* ---------------------------- bounds ---------------------------------- *)
MaxContours == 2
MaxArea == 1
MaxPts == 5
MaxAxis == 11

(* ------------------------ program constants --------------------------- *)
BlurKernel == 7
CannyLow == 30
CannyHigh == 150
MinEllipsePoints == 5
\* the threshold 1.1 of the classification, as the fraction 11/10
ThresholdNum == 11
ThresholdDen == 10

(* --------------------------- environment ------------------------------ *)
\* A path is the sequence of its components; the empty string is <<>>.
Paths == { <<>>, <<"eye.png">>, <<"scans", "left.bmp">> }

Contour == [area : 0..MaxArea, npts : 1..MaxPts]

ContourSeqs == UNION { [1..n -> Contour] : n \in 0..MaxContours }

AxisLengths == 0..MaxAxis

\* A name not yet bound in the procedure.
NoImage == <<>>
NoContour == [area |-> 0, npts |-> 0]
NoAxis == -1
NoRatio == [kind |-> "unset", num |-> 0, den |-> 0]

(* ----------------------------- helpers -------------------------------- *)
Min(a, b) == IF a < b THEN a ELSE b
Max(a, b) == IF a > b THEN a ELSE b

Op(name, params) == [op |-> name, params |-> params]

Line(text, args) == [text |-> text, args |-> args]

\* os.path.basename: the last component of the path
basename(p) == IF p = <<>> THEN <<>> ELSE <<p[Len(p)]>>

\* "{:.2f}" of a natural: the value in hundredths
Fmt2(n) == n * 100

\* "{:.2f}" of the quotient num/den (round half to even), in hundredths
Fmt2Quot(num, den) ==
    LET q == (100 * num) \div den
        r == (100 * num) % den
    IN  IF 2 * r < den THEN q
        ELSE IF 2 * r > den THEN q + 1
        ELSE IF q % 2 = 0 THEN q ELSE q + 1

\* `not image_path`
NotSelected(p) == p = <<>>

\* cv2.contourArea as the key of max()
contourArea(c) == c.area

\* max(contours, key=cv2.contourArea): the scan keeps the current best and
\* replaces it only by an item whose key is strictly greater.
RECURSIVE MaxScan(_, _, _)
MaxScan(cs, i, best) ==
    IF i > Len(cs) THEN best
    ELSE IF contourArea(cs[i]) > contourArea(cs[best])
         THEN MaxScan(cs, i + 1, i)
         ELSE MaxScan(cs, i + 1, best)

\* variant: the last contour of maximal area instead of the first
MaxByArea_mut(cs) ==
    cs[CHOOSE i \in DOMAIN cs :
          /\ \A j \in DOMAIN cs : cs[j].area <= cs[i].area
          /\ \A j \in DOMAIN cs : j > i => cs[j].area < cs[i].area]

MaxByArea(cs) == cs[MaxScan(cs, 2, 1)]

\* variant: the point check off by one
TooFewPoints_mut(c) == c.npts < MinEllipsePoints - 1

\* len(largest_contour) < 5
TooFewPoints(c) == c.npts < MinEllipsePoints

\* variant: only the second axis length is tested against 0
IsDegenerate_mut(major, minor) == minor = 0

\* min(major_axis, minor_axis) == 0
IsDegenerate(major, minor) == Min(major, minor) = 0

\* variant: the quotient of the axis lengths in the order returned
Quotient_mut(major, minor) ==
    [kind |-> "finite", num |-> major, den |-> minor]

\* max(major_axis, minor_axis) / min(major_axis, minor_axis)
Quotient(major, minor) ==
    [kind |-> "finite", num |-> Max(major, minor), den |-> Min(major, minor)]

Infinity == [kind |-> "inf", num |-> 1, den |-> 0]

\* variant: the threshold itself counts as above
AboveThreshold_mut(r) ==
    \/ r.kind = "inf"
    \/ r.kind = "finite" /\ r.num * ThresholdDen >= ThresholdNum * r.den

\* axis_ratio > 1.1
AboveThreshold(r) ==
    \/ r.kind = "inf"
    \/ r.kind = "finite" /\ r.num * ThresholdDen > ThresholdNum * r.den

(* ----------------------------- messages ------------------------------- *)
MsgNoImage == "No image selected. Exiting."
MsgSelected == "Selected image: "
MsgLoadError == "Error: Could not load image from"
MsgNoContours == "No contours found in the image."
MsgFewPoints == "Not enough points found in the largest contour to fit an ellipse."
MsgWarnZero == "Warning: Minor axis is zero."
MsgHeader == "--- Analysis Results ---"
MsgCenter == "Center of Ellipse:"
MsgMajor == "Major Axis Length:"
MsgMinor == "Minor Axis Length:"
MsgAngle == "Orientation Angle:"
MsgRatio == "Axis Ratio (Major/Minor):"
MsgPossible == "Interpretation: Possible Astigmatism Detected."
MsgNone == "Interpretation: No Significant Astigmatism Indicated by Shape Ratio."
MsgFooter == "------------------------"

(* ------------------------------- Init --------------------------------- *)
Init ==
    /\ pc = "start"
    /\ image_path = <<>>
    /\ image = NoImage
    /\ gray = NoImage
    /\ blurred = NoImage
    /\ edges = NoImage
    /\ contours = <<>>
    /\ largest_contour = NoContour
    /\ major_axis = NoAxis
    /\ minor_axis = NoAxis
    /\ result_img = NoImage
    /\ axis_ratio = NoRatio
    /\ out = <<>>
    /\ shown = <<>>
    /\ calls = <<>>
    /\ fit_args = <<>>
    /\ divisions = <<>>

(* ------------------------------ actions ------------------------------- *)
Stdout(l) == Append(out, l)

Call(name) == Append(calls, name)

Show(img, title) == Append(shown, [img |-> img, title |-> title])

\* lines 15-16: root = tk.Tk(); root.withdraw()
CreateRoot ==
    /\ pc = "start"
    /\ calls' = calls \o <<"Tk", "withdraw">>
    /\ pc' = "dialog"
    /\ UNCHANGED <<image_path, image, gray, blurred, edges, contours,
                   largest_contour, major_axis, minor_axis, result_img,
                   axis_ratio, out, shown, fit_args, divisions>>

\* lines 19-25: image_path = filedialog.askopenfilename(...)
AskOpenFilename ==
    /\ pc = "dialog"
    /\ \E p \in Paths : image_path' = p
    /\ calls' = Call("askopenfilename")
    /\ pc' = "check_path"
    /\ UNCHANGED <<image, gray, blurred, edges, contours, largest_contour,
                   major_axis, minor_axis, result_img, axis_ratio, out, shown,
                   fit_args, divisions>>

\* variant: the message is printed but the procedure does not return
NoSelection_mut ==
    /\ pc = "check_path"
    /\ NotSelected(image_path)
    /\ out' = Stdout(Line(MsgNoImage, <<>>))
    /\ pc' = "imread"
    /\ UNCHANGED <<image_path, image, gray, blurred, edges, contours,
                   largest_contour, major_axis, minor_axis, result_img,
                   axis_ratio, shown, calls, fit_args, divisions>>

\* lines 28-30: if not image_path: print(...); return
NoSelection ==
    /\ pc = "check_path"
    /\ NotSelected(image_path)
    /\ out' = Stdout(Line(MsgNoImage, <<>>))
    /\ pc' = "done"
    /\ UNCHANGED <<image_path, image, gray, blurred, edges, contours,
                   largest_contour, major_axis, minor_axis, result_img,
                   axis_ratio, shown, calls, fit_args, divisions>>

\* line 32: print(f"Selected image: {os.path.basename(image_path)}")
PrintSelected ==
    /\ pc = "check_path"
    /\ ~NotSelected(image_path)
    /\ out' = Stdout(Line(MsgSelected, basename(image_path)))
    /\ pc' = "imread"
    /\ UNCHANGED <<image_path, image, gray, blurred, edges, contours,
                   largest_contour, major_axis, minor_axis, result_img,
                   axis_ratio, shown, calls, fit_args, divisions>>

\* line 35: image = cv2.imread(image_path); None when the file does not decode
Imread ==
    /\ pc = "imread"
    /\ \E img \in {NoImage, <<Op("imread", <<>>)>>} : image' = img
    /\ calls' = Call("imread")
    /\ pc' = "check_image"
    /\ UNCHANGED <<image_path, gray, blurred, edges, contours, largest_contour,
                   major_axis, minor_axis, result_img, axis_ratio, out, shown,
                   fit_args, divisions>>

\* variant: the message names only the file, not the path
LoadFailure_mut ==
    /\ pc = "check_image"
    /\ image = NoImage
    /\ out' = Stdout(Line(MsgLoadError, basename(image_path)))
    /\ pc' = "done"
    /\ UNCHANGED <<image_path, image, gray, blurred, edges, contours,
                   largest_contour, major_axis, minor_axis, result_img,
                   axis_ratio, shown, calls, fit_args, divisions>>

\* lines 38-41: if image is None: print(f"Error: ... '{image_path}' ..."); return
LoadFailure ==
    /\ pc = "check_image"
    /\ image = NoImage
    /\ out' = Stdout(Line(MsgLoadError, image_path))
    /\ pc' = "done"
    /\ UNCHANGED <<image_path, image, gray, blurred, edges, contours,
                   largest_contour, major_axis, minor_axis, result_img,
                   axis_ratio, shown, calls, fit_args, divisions>>

\* line 44: gray = cv2.cvtColor(image, cv2.COLOR_BGR2GRAY)
CvtColorGray ==
    /\ pc = "check_image"
    /\ image # NoImage
    /\ gray' = Append(image, Op("cvtColor_BGR2GRAY", <<>>))
    /\ calls' = Call("cvtColor_BGR2GRAY")
    /\ pc' = "blur"
    /\ UNCHANGED <<image_path, image, blurred, edges, contours,
                   largest_contour, major_axis, minor_axis, result_img,
                   axis_ratio, out, shown, fit_args, divisions>>

\* line 47: blurred = cv2.GaussianBlur(gray, (7, 7), 0)
GaussianBlur ==
    /\ pc = "blur"
    /\ blurred' = Append(gray, Op("GaussianBlur", <<BlurKernel, BlurKernel, 0>>))
    /\ calls' = Call("GaussianBlur")
    /\ pc' = "canny"
    /\ UNCHANGED <<image_path, image, gray, edges, contours, largest_contour,
                   major_axis, minor_axis, result_img, axis_ratio, out, shown,
                   fit_args, divisions>>

\* line 51: edges = cv2.Canny(blurred, 30, 150)
Canny ==
    /\ pc = "canny"
    /\ edges' = Append(blurred, Op("Canny", <<CannyLow, CannyHigh>>))
    /\ calls' = Call("Canny")
    /\ pc' = "find"
    /\ UNCHANGED <<image_path, image, gray, blurred, contours,
                   largest_contour, major_axis, minor_axis, result_img,
                   axis_ratio, out, shown, fit_args, divisions>>

\* line 56: contours, _ = cv2.findContours(edges, RETR_EXTERNAL, CHAIN_APPROX_SIMPLE)
FindContours ==
    /\ pc = "find"
    /\ \E cs \in ContourSeqs : contours' = cs
    /\ calls' = Call("findContours")
    /\ pc' = "check_contours"
    /\ UNCHANGED <<image_path, image, gray, blurred, edges, largest_contour,
                   major_axis, minor_axis, result_img, axis_ratio, out, shown,
                   fit_args, divisions>>

\* variant: the edge map is displayed instead of the original
NoContours_mut ==
    /\ pc = "check_contours"
    /\ contours = <<>>
    /\ out' = Stdout(Line(MsgNoContours, <<>>))
    /\ shown' = Show(edges, "Original Image (No Contours Found)")
    /\ calls' = calls \o <<"imshow", "show">>
    /\ pc' = "done"
    /\ UNCHANGED <<image_path, image, gray, blurred, edges, contours,
                   largest_contour, major_axis, minor_axis, result_img,
                   axis_ratio, fit_args, divisions>>

\* lines 59-67: if not contours: print(...); imshow(image as RGB); show(); return
NoContours ==
    /\ pc = "check_contours"
    /\ contours = <<>>
    /\ out' = Stdout(Line(MsgNoContours, <<>>))
    /\ shown' = Show(Append(image, Op("cvtColor_BGR2RGB", <<>>)),
                     "Original Image (No Contours Found)")
    /\ calls' = calls \o <<"cvtColor_BGR2RGB", "imshow", "show">>
    /\ pc' = "done"
    /\ UNCHANGED <<image_path, image, gray, blurred, edges, contours,
                   largest_contour, major_axis, minor_axis, result_img,
                   axis_ratio, fit_args, divisions>>

\* line 70: largest_contour = max(contours, key=cv2.contourArea)
SelectLargest ==
    /\ pc = "check_contours"
    /\ contours # <<>>
    /\ largest_contour' = MaxByArea(contours)
    /\ calls' = Call("max")
    /\ pc' = "check_points"
    /\ UNCHANGED <<image_path, image, gray, blurred, edges, contours,
                   major_axis, minor_axis, result_img, axis_ratio, out, shown,
                   fit_args, divisions>>

\* variant: the message is printed and the run ends without a display
InsufficientPoints_mut ==
    /\ pc = "check_points"
    /\ TooFewPoints(largest_contour)
    /\ out' = Stdout(Line(MsgFewPoints, <<>>))
    /\ pc' = "done"
    /\ UNCHANGED <<image_path, image, gray, blurred, edges, contours,
                   largest_contour, major_axis, minor_axis, result_img,
                   axis_ratio, shown, calls, fit_args, divisions>>

\* lines 74-82: if len(largest_contour) < 5: print(...); imshow(edges); show(); return
InsufficientPoints ==
    /\ pc = "check_points"
    /\ TooFewPoints(largest_contour)
    /\ out' = Stdout(Line(MsgFewPoints, <<>>))
    /\ shown' = Show(edges, "Edges Detected (Insufficient Points for Ellipse Fit)")
    /\ calls' = calls \o <<"imshow", "show">>
    /\ pc' = "done"
    /\ UNCHANGED <<image_path, image, gray, blurred, edges, contours,
                   largest_contour, major_axis, minor_axis, result_img,
                   axis_ratio, fit_args, divisions>>

\* lines 85-90: ellipse = cv2.fitEllipse(largest_contour); unpack the axis
\* lengths in the order the fit returns them; draw the ellipse on a copy.
FitEllipse ==
    /\ pc = "check_points"
    /\ ~TooFewPoints(largest_contour)
    /\ fit_args' = Append(fit_args, largest_contour)
    /\ \E a \in AxisLengths, b \in AxisLengths :
          /\ major_axis' = a
          /\ minor_axis' = b
    /\ result_img' = Append(image, Op("ellipse", <<0, 255, 0, 2>>))
    /\ calls' = calls \o <<"fitEllipse", "copy", "ellipse">>
    /\ pc' = "ratio"
    /\ UNCHANGED <<image_path, image, gray, blurred, edges, contours,
                   largest_contour, axis_ratio, out, shown, divisions>>

\* lines 94-99: the warning and the sentinel when the smaller axis is 0,
\* else the quotient; a float division by 0 raises ZeroDivisionError.
ComputeRatio ==
    /\ pc = "ratio"
    /\ IF IsDegenerate(major_axis, minor_axis)
       THEN /\ out' = Stdout(Line(MsgWarnZero, <<>>))
            /\ axis_ratio' = Infinity
            /\ pc' = "report"
            /\ UNCHANGED divisions
       ELSE /\ divisions' = Append(divisions,
                   <<Max(major_axis, minor_axis), Min(major_axis, minor_axis)>>)
            /\ IF Min(major_axis, minor_axis) = 0
               THEN /\ pc' = "crashed"
                    /\ UNCHANGED axis_ratio
               ELSE /\ axis_ratio' = Quotient(major_axis, minor_axis)
                    /\ pc' = "report"
            /\ UNCHANGED out
    /\ UNCHANGED <<image_path, image, gray, blurred, edges, contours,
                   largest_contour, major_axis, minor_axis, result_img, shown,
                   calls, fit_args>>

\* the text of f"{axis_ratio:.2f}"
FmtRatio(r) == IF r.kind = "inf" THEN <<>> ELSE <<Fmt2Quot(r.num, r.den)>>

\* lines 102-107: the results block
PrintResults ==
    /\ pc = "report"
    /\ out' = out \o << Line(MsgHeader, <<>>),
                        Line(MsgCenter, <<>>),
                        Line(MsgMajor, <<Fmt2(major_axis)>>),
                        Line(MsgMinor, <<Fmt2(minor_axis)>>),
                        Line(MsgAngle, <<>>),
                        Line(MsgRatio, FmtRatio(axis_ratio)) >>
    /\ pc' = "classify"
    /\ UNCHANGED <<image_path, image, gray, blurred, edges, contours,
                   largest_contour, major_axis, minor_axis, result_img,
                   axis_ratio, shown, calls, fit_args, divisions>>

\* lines 113-120: the interpretation and the closing rule
Classify ==
    /\ pc = "classify"
    /\ out' = out \o << Line(IF AboveThreshold(axis_ratio)
                             THEN MsgPossible ELSE MsgNone, <<>>),
                        Line(MsgFooter, <<>>) >>
    /\ pc' = "show"
    /\ UNCHANGED <<image_path, image, gray, blurred, edges, contours,
                   largest_contour, major_axis, minor_axis, result_img,
                   axis_ratio, shown, calls, fit_args, divisions>>

\* lines 123-127: imshow(result_img as RGB); show()
ShowResult ==
    /\ pc = "show"
    /\ shown' = Show(Append(result_img, Op("cvtColor_BGR2RGB", <<>>)),
                     "Ellipse Fit of Cornea")
    /\ calls' = calls \o <<"cvtColor_BGR2RGB", "imshow", "show">>
    /\ pc' = "done"
    /\ UNCHANGED <<image_path, image, gray, blurred, edges, contours,
                   largest_contour, major_axis, minor_axis, result_img,
                   axis_ratio, out, fit_args, divisions>>

Next ==
    \/ CreateRoot
    \/ AskOpenFilename
    \/ NoSelection
    \/ PrintSelected
    \/ Imread
    \/ LoadFailure
    \/ CvtColorGray
    \/ GaussianBlur
    \/ Canny
    \/ FindContours
    \/ NoContours
    \/ SelectLargest
    \/ InsufficientPoints
    \/ FitEllipse
    \/ ComputeRatio
    \/ PrintResults
    \/ Classify
    \/ ShowResult

Spec == Init /\ [][Next]_vars

(* ======================= properties of the run ======================== *)
Printed(t) == \E i \in DOMAIN out : out[i].text = t

Called(c) == \E i \in DOMAIN calls : calls[i] = c

LaterStages == {"imread", "cvtColor_BGR2GRAY", "GaussianBlur", "Canny",
                "findContours", "max", "fitEllipse", "copy", "ellipse",
                "cvtColor_BGR2RGB", "imshow", "show"}

OriginalRGB == Append(image, Op("cvtColor_BGR2RGB", <<>>))

OverlayRGB == <<Op("imread", <<>>), Op("ellipse", <<0, 255, 0, 2>>),
                Op("cvtColor_BGR2RGB", <<>>)>>

EdgeMap == <<Op("imread", <<>>), Op("cvtColor_BGR2GRAY", <<>>),
             Op("GaussianBlur", <<7, 7, 0>>), Op("Canny", <<30, 150>>)>>

Fitted == major_axis # NoAxis

ResultsBlockPrinted == Printed(MsgHeader)

\* C1: when the file dialog returns the empty path, the run prints exactly
\* "No image selected. Exiting." and halts: no later stage (decode,
\* grayscale, blur, edges, contours, fit, classification, display) is
\* performed and nothing else is printed.
C1_NoSelectionHalts ==
    (Called("askopenfilename") /\ image_path = <<>>) =>
        /\ pc \in {"check_path", "done"}
        /\ \A i \in DOMAIN calls : calls[i] \notin LaterStages
        /\ shown = <<>>
        /\ image = NoImage /\ edges = NoImage /\ contours = <<>>
        /\ ~Fitted /\ axis_ratio = NoRatio
        /\ (pc = "check_path" => out = <<>>)
        /\ (pc = "done" => Len(out) = 1 /\ out[1].text = MsgNoImage)

C1_Witness ==
    /\ pc = "done"
    /\ image_path = <<>>
    /\ Len(out) = 1 /\ out[1].text = MsgNoImage

\* C2: when a non-empty path is selected but the decoder returns no image,
\* the run prints a decode-failure message containing the given path and
\* halts: no later stage is performed.
C2_DecodeFailureHalts ==
    (Called("imread") /\ image = NoImage) =>
        /\ pc \in {"check_image", "done"}
        /\ calls[Len(calls)] = "imread"
        /\ shown = <<>>
        /\ gray = NoImage /\ blurred = NoImage /\ edges = NoImage
        /\ contours = <<>> /\ ~Fitted /\ axis_ratio = NoRatio
        /\ ~ResultsBlockPrinted
        /\ (pc = "done" =>
              /\ image_path # <<>>
              /\ out[Len(out)].text = MsgLoadError
              /\ out[Len(out)].args = image_path)

C2_Witness ==
    /\ pc = "done"
    /\ image = NoImage
    /\ Len(image_path) = 2
    /\ Printed(MsgLoadError)

\* C3: when contour extraction yields no contours, the run prints the
\* no-contours message, displays the original image (not the edge map, not
\* an overlay) and halts without selecting a contour, fitting an ellipse or
\* printing the results block.
C3_NoContoursShowsOriginal ==
    (Called("findContours") /\ contours = <<>>) =>
        /\ pc \in {"check_contours", "done"}
        /\ ~Called("max") /\ ~Called("fitEllipse")
        /\ largest_contour = NoContour
        /\ fit_args = <<>> /\ ~Fitted
        /\ ~ResultsBlockPrinted
        /\ (pc = "check_contours" => shown = <<>>)
        /\ (pc = "done" =>
              /\ out[Len(out)].text = MsgNoContours
              /\ Len(shown) = 1
              /\ shown[1].img = OriginalRGB
              /\ shown[1].img # edges
              /\ shown[1].img # OverlayRGB)

C3_Witness ==
    /\ pc = "done"
    /\ Called("findContours")
    /\ contours = <<>>
    /\ Len(shown) = 1

\* C4: the ellipse fit is invoked only on a contour with at least 5 points;
\* when the selected largest contour has fewer than 5 points the run prints
\* the insufficient-points message, displays the edge map and halts without
\* fitting an ellipse or printing the results block.
C4_FitNeedsFivePoints ==
    /\ \A i \in DOMAIN fit_args : fit_args[i].npts >= 5
    /\ (Called("max") /\ largest_contour.npts < 5) =>
          /\ pc \in {"check_points", "done"}
          /\ fit_args = <<>> /\ ~Fitted /\ ~Called("fitEllipse")
          /\ ~ResultsBlockPrinted
          /\ (pc = "done" =>
                /\ out[Len(out)].text = MsgFewPoints
                /\ Len(shown) = 1
                /\ shown[1].img = EdgeMap)

C4_Witness ==
    /\ pc = "done"
    /\ Called("max")
    /\ largest_contour.npts = 4
    /\ Printed(MsgFewPoints)

\* C5: if min(major, minor) is 0 the run prints a warning, sets axis_ratio
\* to the infinity sentinel without dividing, and goes on to print the
\* results block and show the overlay; otherwise axis_ratio is
\* max(major, minor) / min(major, minor).  No division by zero is reached.
C5_RatioNeverDividesByZero ==
    /\ pc # "crashed"
    /\ \A i \in DOMAIN divisions : divisions[i][2] # 0
    /\ (Fitted /\ pc \in {"report", "classify", "show", "done"}) =>
          LET lo == IF major_axis < minor_axis THEN major_axis ELSE minor_axis
              hi == IF major_axis < minor_axis THEN minor_axis ELSE major_axis
          IN  /\ lo = 0 =>
                    /\ axis_ratio.kind = "inf"
                    /\ divisions = <<>>
                    /\ Printed(MsgWarnZero)
              /\ lo # 0 =>
                    /\ axis_ratio = [kind |-> "finite", num |-> hi, den |-> lo]
                    /\ divisions = << <<hi, lo>> >>
                    /\ ~Printed(MsgWarnZero)
              /\ pc \in {"classify", "show", "done"} => ResultsBlockPrinted
              /\ pc = "done" => Len(shown) = 1 /\ shown[1].img = OverlayRGB

C5_Witness ==
    /\ pc = "done"
    /\ major_axis = 0 /\ minor_axis > 0
    /\ axis_ratio.kind = "inf"
    /\ ResultsBlockPrinted
    /\ Len(shown) = 1

\* C6: the interpretation printed is "possible astigmatism" iff axis_ratio
\* is strictly greater than 1.1 and "no significant astigmatism" otherwise;
\* a ratio of exactly 1.1 is "no significant astigmatism" and the infinity
\* sentinel is "possible astigmatism".
C6_ClassificationThreshold ==
    (Fitted /\ pc \in {"show", "done"}) =>
        LET above == \/ axis_ratio.kind = "inf"
                     \/ /\ axis_ratio.kind = "finite"
                        /\ 10 * axis_ratio.num > 11 * axis_ratio.den
        IN  /\ Printed(MsgPossible) <=> above
            /\ Printed(MsgNone) <=> ~above
            /\ (axis_ratio.kind = "finite"
                  /\ 10 * axis_ratio.num = 11 * axis_ratio.den) => Printed(MsgNone)
            /\ axis_ratio.kind = "inf" => Printed(MsgPossible)

C6_Witness ==
    /\ pc = "done"
    /\ axis_ratio = [kind |-> "finite", num |-> 11, den |-> 10]
    /\ Printed(MsgNone)
    /\ ~Printed(MsgPossible)

\* C7 (as stated): every run displays exactly one image window.
C7_ExactlyOneWindowEveryRun ==
    pc = "done" => Len(shown) = 1

\* C7 (amended): a run that decoded an image displays exactly one window --
\* the original when no contour was found, the edge map when the largest
\* contour has fewer than 5 points, the annotated result otherwise -- and a
\* run that ended at the empty selection or the decode failure displays none.
C7_OneWindowAfterDecode ==
    /\ Len(shown) <= 1
    /\ pc = "done" =>
          IF image = NoImage
          THEN shown = <<>>
          ELSE /\ Len(shown) = 1
               /\ shown[1].img =
                     IF contours = <<>> THEN OriginalRGB
                     ELSE IF largest_contour.npts < 5 THEN EdgeMap
                     ELSE OverlayRGB

C7_Witness ==
    /\ pc = "done"
    /\ image # NoImage
    /\ contours # <<>>
    /\ largest_contour.npts < 5
    /\ Len(shown) = 1

\* C8: the selected contour has an area >= the area of every extracted
\* contour, and among several of maximal area it is the first in extraction
\* order; the choice depends on the area only, not on the point count.
C8_LargestIsFirstMaxArea ==
    Called("max") =>
        /\ \A i \in DOMAIN contours : contours[i].area <= largest_contour.area
        /\ \E i \in DOMAIN contours :
              /\ largest_contour = contours[i]
              /\ \A j \in DOMAIN contours :
                    /\ contours[j].area <= contours[i].area
                    /\ j < i => contours[j].area < contours[i].area

C8_Witness ==
    /\ Called("max")
    /\ Len(contours) >= 2
    /\ contours[1].area = contours[2].area
    /\ contours[1].npts < contours[2].npts
    /\ largest_contour = contours[1]

\* C9: in every run that prints the results block, the value reported as
\* "Major Axis Length" is >= the value reported as "Minor Axis Length",
\* whichever order the fit returned the two axis lengths in.
C9_ReportedMajorGeMinor ==
    \A i \in DOMAIN out : \A j \in DOMAIN out :
        (out[i].text = MsgMajor /\ out[j].text = MsgMinor) =>
            out[i].args[1] >= out[j].args[1]

\* C10: the computed axis_ratio is the infinity sentinel or a finite value
\* >= 1, and axis_ratio and the classification are what the swapped pair of
\* axis lengths would yield.
C10_RatioSymmetric ==
    (Fitted /\ pc \in {"report", "classify", "show", "done"}) =>
        LET swapped == IF IsDegenerate(minor_axis, major_axis)
                       THEN Infinity
                       ELSE Quotient(minor_axis, major_axis)
        IN  /\ \/ axis_ratio.kind = "inf"
               \/ /\ axis_ratio.kind = "finite"
                  /\ axis_ratio.den > 0
                  /\ axis_ratio.num >= axis_ratio.den
            /\ axis_ratio = swapped
            /\ pc \in {"show", "done"} =>
                  (Printed(MsgPossible) <=> AboveThreshold(swapped))

C10_Witness ==
    /\ pc = "done"
    /\ major_axis = 10 /\ minor_axis = 11
    /\ axis_ratio.kind = "finite"
    /\ axis_ratio.num = 11 /\ axis_ratio.den = 10
    /\ Printed(MsgNone)

====
